---- MODULE Spec2Model ----
(***************************************************************************)
(* Model of library.py: the Book record, the Library catalog, its loan map *)
(* (issued_books), the CSV file it is loaded from and saved to, and the    *)
(* menu loop that drives add / display / search / issue / return / save.   *)
(*                                                                         *)
(* A Python str is a sequence of one-character strings.  A timestamp is an *)
(* integer number of clock ticks, TicksPerDay ticks to the day.            *)
(***************************************************************************)
EXTENDS Integers, Sequences, FiniteSets, TLC

(***************************************************************************)
(* Bounds of the model.                                                    *)
(***************************************************************************)
\* largest catalog the add operation is allowed to grow to
MaxBooks == 2
\* random.randint draws are taken from IdMin .. IdMin + MaxIdOffset
MaxIdOffset == 1
\* resolution of the clock: ticks per day
TicksPerDay == 2

(***************************************************************************)
(* Program constants.                                                      *)
(***************************************************************************)
IdMin == 1000
IdMax == 9999
LoanDays == 14
FinePerDay == 10

(***************************************************************************)
(* Characters and strings.                                                 *)
(***************************************************************************)
Digits == <<"0", "1", "2", "3", "4", "5", "6", "7", "8", "9">>
UpperLetters == <<"A", "B", "C", "D", "E", "F", "G", "H", "I", "J", "K", "L", "M",
                  "N", "O", "P", "Q", "R", "S", "T", "U", "V", "W", "X", "Y", "Z">>
LowerLetters == <<"a", "b", "c", "d", "e", "f", "g", "h", "i", "j", "k", "l", "m",
                  "n", "o", "p", "q", "r", "s", "t", "u", "v", "w", "x", "y", "z">>

IsDigit(c) == \E i \in 1..10 : Digits[i] = c
DigitVal(c) == (CHOOSE i \in 1..10 : Digits[i] = c) - 1

\* the lower-case letter of every upper-case letter
LowerOf == [c \in {UpperLetters[i] : i \in 1..26} |->
              LowerLetters[CHOOSE i \in 1..26 : UpperLetters[i] = c]]

\* str.lower() on one character
LowerChar(c) == IF c \in DOMAIN LowerOf THEN LowerOf[c] ELSE c

\* str.lower()
Lower(s) == [i \in 1..Len(s) |-> LowerChar(s[i])]

\* str.strip(): drop leading and trailing blanks
RECURSIVE LStrip(_)
LStrip(s) == IF s # <<>> /\ s[1] = " " THEN LStrip(Tail(s)) ELSE s
RECURSIVE RStrip(_)
RStrip(s) == IF s # <<>> /\ s[Len(s)] = " " THEN RStrip(SubSeq(s, 1, Len(s) - 1)) ELSE s
Strip(s) == RStrip(LStrip(s))

\* the Python expression  q in t  on two strings
IsSubstr(q, t) == \E i \in 0..(Len(t) - Len(q)) : SubSeq(t, i + 1, i + Len(q)) = q

\* str(n) for an int n
RECURSIVE NatToStr(_)
NatToStr(n) == IF n < 10 THEN <<Digits[n + 1]>>
               ELSE NatToStr(n \div 10) \o <<Digits[(n % 10) + 1]>>
IntToStr(n) == IF n < 0 THEN <<"-">> \o NatToStr(-n) ELSE NatToStr(n)

RECURSIVE DigitsToNat(_)
DigitsToNat(s) == IF s = <<>> THEN 0
                  ELSE 10 * DigitsToNat(SubSeq(s, 1, Len(s) - 1)) + DigitVal(s[Len(s)])

\* int(s) for a str s: blanks around, an optional sign, then one or more
\* digits; anything else raises ValueError
ParseInt(s) ==
    LET t == Strip(s)
        signed == t # <<>> /\ t[1] \in {"+", "-"}
        body == IF signed THEN Tail(t) ELSE t
    IN  IF body # <<>> /\ \A i \in 1..Len(body) : IsDigit(body[i])
        THEN [exc |-> "none",
              val |-> IF signed /\ t[1] = "-" THEN 0 - DigitsToNat(body) ELSE DigitsToNat(body)]
        ELSE [exc |-> "ValueError", val |-> 0]

(***************************************************************************)
(* Python values handed to Book(...): an int, a str, or None.              *)
(***************************************************************************)
PyInt(n) == [type |-> "int", int |-> n, str |-> <<>>]
PyStr(s) == [type |-> "str", int |-> 0, str |-> s]
PyNone == [type |-> "None", int |-> 0, str |-> <<>>]

\* int(v): TypeError on None, ValueError on a str that is not a number
IntOf(v) ==
    CASE v.type = "int" -> [exc |-> "none", val |-> v.int]
      [] v.type = "str" -> ParseInt(v.str)
      [] OTHER -> [exc |-> "TypeError", val |-> 0]

\* str(v)
StrOf(v) ==
    CASE v.type = "int" -> IntToStr(v.int)
      [] v.type = "str" -> v.str
      [] OTHER -> <<"N", "o", "n", "e">>

(***************************************************************************)
(* class Book                                                              *)
(***************************************************************************)
NoBook == [book_id |-> <<>>, title |-> <<>>, author |-> <<>>,
           total_copies |-> 0, available_copies |-> 0]

\* Book.__init__.  int(total_copies) is evaluated first, int(available_copies)
\* second; the first ValueError zeroes both counts, a TypeError (int(None))
\* is not caught here and leaves no object.  title and author are stored as
\* given; a Book whose title is None is never built, because such a row has
\* no count columns either and int(None) raises first.
Book(book_id, title, author, total_copies, available_copies) ==
    LET t == IntOf(total_copies)
        a == IntOf(available_copies)
        made(tc, ac) == [exc |-> "none",
                         book |-> [book_id |-> StrOf(book_id), title |-> title.str,
                                   author |-> author.str,
                                   total_copies |-> tc, available_copies |-> ac]]
    IN  CASE t.exc = "ValueError" -> made(0, 0)
          [] t.exc = "TypeError" -> [exc |-> "TypeError", book |-> NoBook]
          [] a.exc = "ValueError" -> made(0, 0)
          [] a.exc = "TypeError" -> [exc |-> "TypeError", book |-> NoBook]
          [] OTHER -> made(t.val, a.val)

\* to_dict with the two counts under each other's key
to_dict_swapped(b) == <<PyStr(b.book_id), PyStr(b.title), PyStr(b.author),
                        PyInt(b.available_copies), PyInt(b.total_copies)>>

\* Book.to_dict: the values under BookID, Title, Author, TotalCopies,
\* AvailableCopies, in FIELDNAMES order
to_dict(b) == <<PyStr(b.book_id), PyStr(b.title), PyStr(b.author),
                PyInt(b.total_copies), PyInt(b.available_copies)>>

\* check_out that reports success without taking a copy off the shelf
check_out_keeps_count(b) ==
    IF b.available_copies > 0
    THEN [ok |-> TRUE, book |-> b]
    ELSE [ok |-> FALSE, book |-> b]

\* check_out that lends a copy when none is left
check_out_at_zero(b) ==
    IF b.available_copies >= 0
    THEN [ok |-> TRUE, book |-> [b EXCEPT !.available_copies = @ - 1]]
    ELSE [ok |-> FALSE, book |-> b]

\* Book.check_out: the result and the book afterwards
check_out(b) ==
    IF b.available_copies > 0
    THEN [ok |-> TRUE, book |-> [b EXCEPT !.available_copies = @ - 1]]
    ELSE [ok |-> FALSE, book |-> b]

\* check_in that reports success without putting the copy back
check_in_keeps_count(b) ==
    IF b.available_copies < b.total_copies
    THEN [ok |-> TRUE, book |-> b]
    ELSE [ok |-> FALSE, book |-> b]

\* check_in that takes a copy back when all are in
check_in_at_total(b) ==
    IF b.available_copies <= b.total_copies
    THEN [ok |-> TRUE, book |-> [b EXCEPT !.available_copies = @ + 1]]
    ELSE [ok |-> FALSE, book |-> b]

\* Book.check_in: the result and the book afterwards
check_in(b) ==
    IF b.available_copies < b.total_copies
    THEN [ok |-> TRUE, book |-> [b EXCEPT !.available_copies = @ + 1]]
    ELSE [ok |-> FALSE, book |-> b]

(***************************************************************************)
(* The csv module, default dialect: delimiter ',', quotechar '"',          *)
(* doublequote, QUOTE_MINIMAL, not strict.  A file is a sequence of lines; *)
(* a line is a str without its line terminator.                            *)
(***************************************************************************)
FIELDNAMES == << <<"B", "o", "o", "k", "I", "D">>,
                 <<"T", "i", "t", "l", "e">>,
                 <<"A", "u", "t", "h", "o", "r">>,
                 <<"T", "o", "t", "a", "l", "C", "o", "p", "i", "e", "s">>,
                 <<"A", "v", "a", "i", "l", "a", "b", "l", "e", "C", "o", "p", "i", "e", "s">> >>

\* csv.writer: a field is quoted when it holds the delimiter, the quote
\* character or a line terminator character
NeedsQuote(f) == \E i \in 1..Len(f) : f[i] \in {",", "\"", "\r", "\n"}

RECURSIVE DoubleQuotes(_)
DoubleQuotes(f) ==
    IF f = <<>> THEN <<>>
    ELSE (IF f[1] = "\"" THEN <<"\"", "\"">> ELSE <<f[1]>>) \o DoubleQuotes(Tail(f))

QuoteField(f) == IF NeedsQuote(f) THEN <<"\"">> \o DoubleQuotes(f) \o <<"\"">> ELSE f

RECURSIVE JoinFields(_)
JoinFields(fs) ==
    IF Len(fs) = 0 THEN <<>>
    ELSE IF Len(fs) = 1 THEN fs[1]
    ELSE fs[1] \o <<",">> \o JoinFields(Tail(fs))

\* csv.DictWriter.writerow on the values of a row in FIELDNAMES order
WriteRow(values) == JoinFields([i \in 1..Len(values) |-> QuoteField(StrOf(values[i]))])

\* csv.DictWriter.writeheader
WriteHeader == WriteRow([i \in 1..Len(FIELDNAMES) |-> PyStr(FIELDNAMES[i])])

\* csv.reader on one line: the parser's states are START_FIELD ("start"),
\* IN_FIELD ("field"), IN_QUOTED_FIELD ("quoted") and QUOTE_IN_QUOTED_FIELD
\* ("endquote"); cur is the field being read, fields the ones read so far
RECURSIVE ParseFrom(_, _, _, _, _)
ParseFrom(line, i, st, cur, fields) ==
    IF i > Len(line)
    THEN Append(fields, cur)
    ELSE LET c == line[i] IN
         CASE st = "start" /\ c = "," -> ParseFrom(line, i + 1, "start", <<>>, Append(fields, <<>>))
           [] st = "start" /\ c = "\"" -> ParseFrom(line, i + 1, "quoted", <<>>, fields)
           [] st = "start" /\ c \notin {",", "\""} ->
                  ParseFrom(line, i + 1, "field", <<c>>, fields)
           [] st = "field" /\ c = "," -> ParseFrom(line, i + 1, "start", <<>>, Append(fields, cur))
           [] st = "field" /\ c # "," -> ParseFrom(line, i + 1, "field", Append(cur, c), fields)
           [] st = "quoted" /\ c = "\"" -> ParseFrom(line, i + 1, "endquote", cur, fields)
           [] st = "quoted" /\ c # "\"" -> ParseFrom(line, i + 1, "quoted", Append(cur, c), fields)
           [] st = "endquote" /\ c = "\"" ->
                  ParseFrom(line, i + 1, "quoted", Append(cur, c), fields)
           [] st = "endquote" /\ c = "," ->
                  ParseFrom(line, i + 1, "start", <<>>, Append(fields, cur))
           [] OTHER -> ParseFrom(line, i + 1, "field", Append(cur, c), fields)

\* the list csv.reader yields for a line; an empty line yields []
ParseLine(line) == IF line = <<>> THEN <<>> ELSE ParseFrom(line, 1, "start", <<>>, <<>>)

\* csv.DictReader(f, fieldnames=FIELDNAMES): empty rows are skipped, a row
\* shorter than FIELDNAMES has None under the missing keys
RECURSIVE DictRows(_)
DictRows(lines) ==
    IF lines = <<>> THEN <<>>
    ELSE LET row == ParseLine(lines[1]) IN
         (IF row = <<>> THEN <<>> ELSE <<row>>) \o DictRows(Tail(lines))

\* row[FIELDNAMES[k]]
RowGet(row, k) == IF k <= Len(row) THEN PyStr(row[k]) ELSE PyNone

(***************************************************************************)
(* Inputs: what the user types, what random.randint draws, the files the   *)
(* program may find when it starts, the instants at which the user acts.   *)
(***************************************************************************)
Dune == <<"D", "u", "n", "e">>
\* a title that holds an id, the delimiter and the quote character
Quoted1001 == <<"1", "0", "0", "1", ",", "\"", "a", "\"">>
Herbert == <<"H", "e", "r", "b", "e", "r", "t">>

TitleInputs == {<<" ">> \o Dune}
AuthorInputs == {Herbert \o <<" ">>}
QtyInputs == {<<"x">>, <<"0">>, <<"-", "1">>, <<" ", "1">>}
QueryInputs == {<<>>, <<"U", "N", " ">>, <<"1", "0", "0", "0">>, <<"1", "0", "0", "1">>,
                <<"z", "z">>}

\* random.randint(1000, 9999), restricted to the first values of the range
DrawRange == {n \in IdMin..(IdMin + MaxIdOffset) : n <= IdMax}

\* a raw line of a file found on disk: the fields joined by commas as typed
RawLine(id, title, author, total, available) == JoinFields(<<id, title, author, total, available>>)
Id1000 == <<"1", "0", "0", "0">>
Id1001 == <<"1", "0", "0", "1">>

FileOf(ls) == [exists |-> TRUE, readable |-> TRUE, lines |-> ls]
NoFile == [exists |-> FALSE, readable |-> FALSE, lines |-> <<>>]

InitFiles ==
    { NoFile,
      \* an empty file
      FileOf(<<>>),
      \* a file that cannot be opened for reading
      [exists |-> TRUE, readable |-> FALSE,
       lines |-> <<WriteHeader, RawLine(Id1000, Dune, Herbert, <<"2">>, <<"2">>)>>],
      \* one well-formed row; the same with a copy out; with a blank line before it
      FileOf(<<WriteHeader, RawLine(Id1000, Dune, Herbert, <<"2">>, <<"2">>)>>),
      FileOf(<<WriteHeader, <<>>, RawLine(Id1000, Dune, Herbert, <<"2">>, <<"1">>)>>),
      \* counts that are not numbers, negative, or available above total
      FileOf(<<WriteHeader, RawLine(Id1000, Dune, Herbert, <<"2">>, <<"x">>)>>),
      FileOf(<<WriteHeader, RawLine(Id1000, Dune, Herbert, <<"1">>, <<"-", "1">>)>>),
      FileOf(<<WriteHeader, RawLine(Id1000, Dune, Herbert, <<"1">>, <<"2">>)>>),
      \* a well-formed row and rows with columns missing
      FileOf(<<WriteHeader, RawLine(Id1001, Dune, Herbert, <<"1">>, <<"1">>),
               JoinFields(<<Id1000, Dune, Herbert, <<"1">>>>)>>),
      FileOf(<<WriteHeader, JoinFields(<<Id1000, Dune, Herbert, <<"x">>>>)>>),
      \* two rows with the same id; a title that holds another row's id
      FileOf(<<WriteHeader, RawLine(Id1000, Dune, Herbert, <<"1">>, <<"1">>),
               RawLine(Id1000, <<"z">>, Herbert, <<"1">>, <<"1">>)>>),
      FileOf(<<WriteHeader, WriteRow(<<PyStr(Id1000), PyStr(Quoted1001), PyStr(Herbert),
                                       PyInt(1), PyInt(1)>>),
               RawLine(Id1001, Dune, Herbert, <<"1">>, <<"0">>)>>) }

\* the file of the runs in which time passes
ClockFile == FileOf(<<WriteHeader, RawLine(Id1000, Dune, Herbert, <<"1">>, <<"1">>)>>)

\* the instants at which the user is at the keyboard in those runs: the
\* start, the due date of a loan made at the start, one tick after it, and
\* 20 days after the start
Instants == {0, LoanDays * TicksPerDay, LoanDays * TicksPerDay + 1, (LoanDays + 6) * TicksPerDay}

\* a run is one of InitFiles with the clock standing still, or ClockFile
\* with the user at the keyboard at Instants
Scenarios == {<<f, {}>> : f \in InitFiles} \cup {<<ClockFile, Instants>>}

\* the values the clock is read at in a run with the calendar cal: the start,
\* the instants of cal, and the tick after each of them
Ticks(cal) == {0} \cup cal \cup {t + 1 : t \in cal}

(***************************************************************************)
(* Maps keyed by book id (Python dict).                                    *)
(***************************************************************************)
EmptyMap == [k \in {} |-> 0]
Put(m, k, v) == [x \in (DOMAIN m) \cup {k} |-> IF x = k THEN v ELSE m[x]]
\* a pop that leaves the entry in the map
PopKeeps(m, k) == m
Pop(m, k) == [x \in (DOMAIN m) \ {k} |-> m[x]]

(***************************************************************************)
(* State.                                                                  *)
(***************************************************************************)
VARIABLES
    pc,             \* where the program is: "start", "menu", "nextid", "qty", "exited"
    file,           \* library_data.txt
    books,          \* Library.books, a list of Book records
    issued_books,   \* Library.issued_books: book id -> <<issue date, due date>>
    now,            \* the clock read by datetime.now()
    out,            \* what the step just taken printed
    new_book,       \* add_book's locals book_id, title, author while it prompts
    calendar,       \* the instants at which the user is at the keyboard
    hist            \* history of this run, per book id: net = successful issues
                    \* minus returns that incremented the count, last = the kind
                    \* of the latest of those operations

vars == <<pc, file, books, issued_books, now, out, new_book, calendar, hist>>

Out(msg, fine) == [msg |-> msg, fine |-> fine]
NoOut == Out("none", 0)
NoNewBook == [book_id |-> <<>>, title |-> <<>>, author |-> <<>>]

NetOf(h, id) == IF id \in DOMAIN h THEN h[id].net ELSE 0
LastOf(h, id) == IF id \in DOMAIN h THEN h[id].last ELSE "none"

(***************************************************************************)
(* class Library: helpers                                                  *)
(***************************************************************************)
\* the loop of _load_books over the rows after the header: a row whose
\* Book(...) raises is skipped with a diagnostic
RECURSIVE LoadRows(_)
LoadRows(rows) ==
    IF rows = <<>> THEN [books |-> <<>>, skipped |-> 0]
    ELSE LET row == rows[1]
             b == Book(RowGet(row, 1), RowGet(row, 2), RowGet(row, 3),
                       RowGet(row, 4), RowGet(row, 5))
             rest == LoadRows(Tail(rows))
         IN  IF b.exc = "none"
             THEN [books |-> <<b.book>> \o rest.books, skipped |-> rest.skipped]
             ELSE [books |-> rest.books, skipped |-> rest.skipped + 1]

\* Library._load_books on a file that exists: next(reader) drops the first
\* row; without one it raises StopIteration and the list stays empty; a file
\* that cannot be opened gives the empty list as well
load_books(f) ==
    LET rows == DictRows(f.lines) IN
    IF ~f.readable \/ rows = <<>>
    THEN [books |-> <<>>, skipped |-> 0, error |-> TRUE]
    ELSE [books |-> LoadRows(Tail(rows)).books, skipped |-> LoadRows(Tail(rows)).skipped,
          error |-> FALSE]

\* the lines Library.save_books writes
SavedLines(bs) == <<WriteHeader>> \o [i \in 1..Len(bs) |-> WriteRow(to_dict(bs[i]))]

\* existing_ids of Library._get_next_id
ExistingIds(bs) == {bs[i].book_id : i \in 1..Len(bs)}

\* the test of Library._find_book on one book; query is already lower-cased
Matches(query, b) == query = Lower(b.book_id) \/ IsSubstr(query, Lower(b.title))

\* _find_book that falls back on the last book when nothing matches
find_book_or_last(bs, query) ==
    LET q == Lower(query)
        hits == {i \in 1..Len(bs) : (q = Lower(bs[i].book_id) \/ IsSubstr(q, Lower(bs[i].title)))}
    IN  IF hits = {} THEN Len(bs) ELSE CHOOSE i \in hits : \A j \in hits : i <= j

\* _find_book that looks for a book with the id before it looks at the titles
find_book_id_first(bs, query) ==
    LET q == Lower(query)
        byId == {i \in 1..Len(bs) : q = Lower(bs[i].book_id)}
        hits == {i \in 1..Len(bs) : (q = Lower(bs[i].book_id) \/ IsSubstr(q, Lower(bs[i].title)))}
    IN  IF byId # {} THEN CHOOSE i \in byId : \A j \in byId : i <= j
        ELSE IF hits = {} THEN 0 ELSE CHOOSE i \in hits : \A j \in hits : i <= j

\* Library._find_book: the index in books of the first match, 0 for None
find_book(bs, query) ==
    LET q == Lower(query)
        hits == {i \in 1..Len(bs) : Matches(q, bs[i])}
    IN  IF hits = {} THEN 0 ELSE CHOOSE i \in hits : \A j \in hits : i <= j

\* the list comprehension of Library.search_book: indices of the books found
SearchHits(bs, query) ==
    LET q == Lower(query)
        hit(i) == IsSubstr(q, Lower(bs[i].book_id)) \/ IsSubstr(q, Lower(bs[i].title))
        F[i \in 0..Len(bs)] ==
            IF i = 0 THEN <<>> ELSE IF hit(i) THEN Append(F[i - 1], i) ELSE F[i - 1]
    IN  F[Len(bs)]

\* a fine that counts a started day as a whole day
FineRoundedUp(today, due_date) ==
    IF today > due_date
    THEN LET overdue_days == (today - due_date + TicksPerDay - 1) \div TicksPerDay
         IN  <<overdue_days, overdue_days * FinePerDay>>
    ELSE <<0, 0>>

\* the fine of Library.return_book for a return at today of a loan due at
\* due_date: <<overdue days, fine>>; timedelta.days is the whole days
Fine(today, due_date) ==
    IF today > due_date
    THEN LET overdue_days == (today - due_date) \div TicksPerDay
         IN  <<overdue_days, overdue_days * FinePerDay>>
    ELSE <<0, 0>>

(***************************************************************************)
(* Actions.                                                                *)
(***************************************************************************)
Init ==
    /\ pc = "start"
    /\ \E sc \in Scenarios : file = sc[1] /\ calendar = sc[2]
    /\ books = <<>>
    /\ issued_books = EmptyMap
    /\ now = 0
    /\ out = NoOut
    /\ new_book = NoNewBook
    /\ hist = EmptyMap

\* main() up to the menu: Library.__init__.  An absent file is created with
\* a header, unless it cannot be written
Library_init ==
    /\ pc = "start"
    /\ IF file.exists
       THEN /\ books' = load_books(file).books
            /\ out' = Out(IF load_books(file).error THEN "load_error"
                          ELSE IF load_books(file).skipped > 0 THEN "loaded_rows_skipped"
                          ELSE "loaded", 0)
            /\ file' = file
       ELSE /\ books' = <<>>
            /\ \E created \in BOOLEAN :
                 IF created
                 THEN file' = FileOf(<<WriteHeader>>) /\ out' = Out("created", 0)
                 ELSE file' = file /\ out' = Out("create_error", 0)
    /\ issued_books' = EmptyMap
    /\ hist' = EmptyMap
    /\ pc' = "menu"
    /\ UNCHANGED <<now, new_book, calendar>>

\* time passes while the program waits at the menu; the clock is read only
\* by issue_book and return_book, which are entered from the menu
Advance(t) ==
    /\ pc = "menu"
    /\ t \in calendar
    /\ t > now
    /\ now' = t
    /\ out' = NoOut
    /\ UNCHANGED <<pc, file, books, issued_books, new_book, calendar, hist>>

\* a choice that is none of 1..6
InvalidChoice ==
    /\ pc = "menu"
    /\ out' = Out("invalid_choice", 0)
    /\ UNCHANGED <<pc, file, books, issued_books, now, new_book, calendar, hist>>

\* choice 1: add_book up to the call of _get_next_id
add_book ==
    /\ pc = "menu"
    /\ Len(books) < MaxBooks
    /\ pc' = "nextid"
    /\ out' = NoOut
    /\ UNCHANGED <<file, books, issued_books, now, new_book, calendar, hist>>

\* _get_next_id that returns its first draw, in use or not
get_next_id_first_draw(n, title, author) ==
    /\ pc = "nextid"
    /\ new_book' = [book_id |-> IntToStr(n), title |-> Strip(title),
                    author |-> Strip(author)]
    /\ pc' = "qty"
    /\ out' = NoOut
    /\ UNCHANGED <<file, books, issued_books, now, calendar, hist>>

\* one turn of the loop of _get_next_id with the draw n: a value in use is
\* drawn again; a value not in use is returned and add_book reads the title
\* and the author
get_next_id(n, title, author) ==
    /\ pc = "nextid"
    /\ IF IntToStr(n) \in ExistingIds(books)
       THEN UNCHANGED <<pc, new_book>>
       ELSE /\ new_book' = [book_id |-> IntToStr(n), title |-> Strip(title),
                            author |-> Strip(author)]
            /\ pc' = "qty"
    /\ out' = NoOut
    /\ UNCHANGED <<file, books, issued_books, now, calendar, hist>>

\* add_book that puts the new book in front of the list
enter_quantity_in_front(text) ==
    /\ pc = "qty"
    /\ LET total_copies == ParseInt(text) IN
       CASE total_copies.exc = "ValueError" ->
              /\ out' = Out("invalid_quantity", 0)
              /\ UNCHANGED <<pc, books, new_book>>
         [] total_copies.exc = "none" /\ total_copies.val <= 0 ->
              /\ out' = Out("quantity_not_positive", 0)
              /\ UNCHANGED <<pc, books, new_book>>
         [] OTHER ->
              /\ books' = <<Book(PyStr(new_book.book_id), PyStr(new_book.title),
                                 PyStr(new_book.author), PyInt(total_copies.val),
                                 PyInt(total_copies.val)).book>> \o books
              /\ new_book' = NoNewBook
              /\ pc' = "menu"
              /\ out' = Out("added", 0)
    /\ UNCHANGED <<file, issued_books, now, calendar, hist>>

\* the quantity loop of add_book that turns away negative numbers only
enter_quantity_accepts_zero(text) ==
    /\ pc = "qty"
    /\ LET total_copies == ParseInt(text) IN
       CASE total_copies.exc = "ValueError" ->
              /\ out' = Out("invalid_quantity", 0)
              /\ UNCHANGED <<pc, books, new_book>>
         [] total_copies.exc = "none" /\ total_copies.val < 0 ->
              /\ out' = Out("quantity_not_positive", 0)
              /\ UNCHANGED <<pc, books, new_book>>
         [] OTHER ->
              /\ books' = Append(books,
                                 Book(PyStr(new_book.book_id), PyStr(new_book.title),
                                      PyStr(new_book.author), PyInt(total_copies.val),
                                      PyInt(total_copies.val)).book)
              /\ new_book' = NoNewBook
              /\ pc' = "menu"
              /\ out' = Out("added", 0)
    /\ UNCHANGED <<file, issued_books, now, calendar, hist>>

\* one turn of the quantity loop of add_book with the text typed, and on a
\* positive number the rest of add_book
enter_quantity(text) ==
    /\ pc = "qty"
    /\ LET total_copies == ParseInt(text) IN
       CASE total_copies.exc = "ValueError" ->
              /\ out' = Out("invalid_quantity", 0)
              /\ UNCHANGED <<pc, books, new_book>>
         [] total_copies.exc = "none" /\ total_copies.val <= 0 ->
              /\ out' = Out("quantity_not_positive", 0)
              /\ UNCHANGED <<pc, books, new_book>>
         [] OTHER ->
              /\ books' = Append(books,
                                 Book(PyStr(new_book.book_id), PyStr(new_book.title),
                                      PyStr(new_book.author), PyInt(total_copies.val),
                                      PyInt(total_copies.val)).book)
              /\ new_book' = NoNewBook
              /\ pc' = "menu"
              /\ out' = Out("added", 0)
    /\ UNCHANGED <<file, issued_books, now, calendar, hist>>

\* choice 2
display_all_books ==
    /\ pc = "menu"
    /\ out' = IF books = <<>> THEN Out("catalog_empty", 0)
              ELSE Out("catalog", 0)
    /\ UNCHANGED <<pc, file, books, issued_books, now, new_book, calendar, hist>>

\* choice 3
search_book(typed) ==
    /\ pc = "menu"
    /\ LET query == Strip(typed) IN
       out' = IF query = <<>> THEN NoOut
              ELSE IF SearchHits(books, query) # <<>>
                   THEN Out("search_results", 0)
                   ELSE Out("no_match", 0)
    /\ UNCHANGED <<pc, file, books, issued_books, now, new_book, calendar, hist>>

\* choice 4.  datetime.now() is called twice, first for the due date and
\* then for the issue date: the second call returns the same tick or the
\* next one
issue_book(typed) ==
    /\ pc = "menu"
    /\ LET query == Strip(typed)
           i == find_book(books, query)
       IN  IF i = 0
           THEN /\ out' = Out("not_found", 0)
                /\ UNCHANGED <<books, issued_books, now, hist>>
           ELSE IF check_out(books[i]).ok
           THEN \E second \in {now, now + 1} \cap Ticks(calendar) :
                  LET due_date == now + LoanDays * TicksPerDay
                      id == books[i].book_id
                  IN  /\ books' = [books EXCEPT ![i] = check_out(books[i]).book]
                      /\ issued_books' = Put(issued_books, id, <<second, due_date>>)
                      /\ now' = second
                      /\ hist' = Put(hist, id, [net |-> NetOf(hist, id) + 1, last |-> "issue"])
                      /\ out' = Out("issued", 0)
           ELSE /\ out' = Out("all_checked_out", 0)
                /\ UNCHANGED <<books, issued_books, now, hist>>
    /\ UNCHANGED <<pc, file, new_book, calendar>>

\* choice 5
return_book(typed) ==
    /\ pc = "menu"
    /\ LET query == Strip(typed)
           i == find_book(books, query)
       IN  IF i = 0
           THEN /\ out' = Out("not_found", 0)
                /\ UNCHANGED <<books, issued_books, hist>>
           ELSE LET id == books[i].book_id
                    returned == [net |-> NetOf(hist, id) - 1, last |-> "return"]
                IN
                IF id \notin DOMAIN issued_books
                THEN IF books[i].available_copies < books[i].total_copies
                     THEN /\ books' = [books EXCEPT ![i] = check_in(books[i]).book]
                          /\ hist' = IF check_in(books[i]).ok THEN Put(hist, id, returned)
                                     ELSE hist
                          /\ out' = Out("not_recorded_incremented", 0)
                          /\ UNCHANGED issued_books
                     ELSE /\ out' = Out("not_recorded", 0)
                          /\ UNCHANGED <<books, issued_books, hist>>
                ELSE IF check_in(books[i]).ok
                THEN LET due_date == issued_books[id][2]
                         today == now
                     IN  /\ books' = [books EXCEPT ![i] = check_in(books[i]).book]
                         /\ issued_books' = Pop(issued_books, id)
                         /\ hist' = Put(hist, id, returned)
                         /\ out' = Out(IF today > due_date THEN "returned_overdue"
                                       ELSE "returned_on_time",
                                       Fine(today, due_date)[2])
                ELSE /\ out' = Out("cannot_return", 0)
                     /\ UNCHANGED <<books, issued_books, hist>>
    /\ UNCHANGED <<pc, file, now, new_book, calendar>>

\* choice 6: save_books, then the loop ends.  The file is rewritten unless
\* it cannot be opened for writing
save_books ==
    /\ pc = "menu"
    /\ pc' = "exited"
    /\ \E written \in BOOLEAN :
         IF written
         THEN /\ file' = FileOf(SavedLines(books))
              /\ out' = Out("saved", 0)
         ELSE /\ file' = file
              /\ out' = Out("save_error", 0)
    /\ UNCHANGED <<books, issued_books, now, new_book, calendar, hist>>

Next ==
    \/ Library_init
    \/ \E t \in Instants : Advance(t)
    \/ InvalidChoice
    \/ add_book
    \/ \E n \in DrawRange, title \in TitleInputs, author \in AuthorInputs :
         get_next_id(n, title, author)
    \/ \E text \in QtyInputs : enter_quantity(text)
    \/ display_all_books
    \/ \E typed \in QueryInputs : search_book(typed)
    \/ \E typed \in QueryInputs : issue_book(typed)
    \/ \E typed \in QueryInputs : return_book(typed)
    \/ save_books

Spec == Init /\ [][Next]_vars

\* a catalog whose ids are pairwise distinct and whose counts are within
\* 0..total_copies
CleanCatalog(bs) ==
    /\ \A i, j \in 1..Len(bs) : bs[i].book_id = bs[j].book_id => i = j
    /\ \A i \in 1..Len(bs) :
         0 <= bs[i].available_copies /\ bs[i].available_copies <= bs[i].total_copies

\* the program started on a file that loads as such a catalog; issued_books
\* is empty after Library.__init__
InitCleanStart ==
    /\ Init
    /\ CleanCatalog(IF file.exists THEN load_books(file).books ELSE <<>>)
SpecCleanStart == InitCleanStart /\ [][Next]_vars

\* random.randint draws fairly: a loop of _get_next_id that keeps drawing
\* draws every value of the range again and again
Draw(n) == \E title \in TitleInputs, author \in AuthorInputs : get_next_id(n, title, author)
SpecFairDraws == Spec /\ \A n \in DrawRange : SF_vars(Draw(n))

TypeOK ==
    /\ pc \in {"start", "menu", "nextid", "qty", "exited"}
    /\ now \in Nat
    /\ DOMAIN issued_books \subseteq ExistingIds(books)

(***************************************************************************)
(* Vocabulary of the properties.                                           *)
(***************************************************************************)
Ids == ExistingIds(books) \cup DOMAIN hist \cup DOMAIN issued_books

\* the query typed matches book b: equal to its id or inside its title,
\* letter case aside
QueryMatches(typed, b) ==
    \/ Lower(Strip(typed)) = Lower(b.book_id)
    \/ IsSubstr(Lower(Strip(typed)), Lower(b.title))

\* the book a query resolves to is the i-th
ResolvesTo(typed, i) ==
    /\ i \in 1..Len(books)
    /\ QueryMatches(typed, books[i])
    /\ \A j \in 1..(i - 1) : ~QueryMatches(typed, books[j])

\* whole days by which the instant t is past the instant due, 0 when it is not
WholeDaysPast(t, due) ==
    IF t > due
    THEN CHOOSE d \in 0..(t - due) : d * TicksPerDay <= t - due /\ t - due < (d + 1) * TicksPerDay
    ELSE 0

\* available_copies of b after check_out and then check_in
OutThenIn(b) == check_in(check_out(b).book).book.available_copies

(***************************************************************************)
(* C1: every Record of the catalog satisfies                               *)
(* 0 <= availableCopies <= totalCopies in every reachable state, a         *)
(* persisted row with counts outside that being read as (0, 0).            *)
(* The code zeroes the counts only when one of them is not a number.       *)
(***************************************************************************)
C1_CountsWithinTotal ==
    \A i \in 1..Len(books) :
        /\ 0 <= books[i].available_copies
        /\ books[i].available_copies <= books[i].total_copies

(***************************************************************************)
(* C2 as claimed: a loan entry for id X exists iff the successful issues   *)
(* of X outnumber the returns of X that incremented its count.             *)
(***************************************************************************)
C2_LoanIffOutstanding ==
    \A id \in Ids : (id \in DOMAIN issued_books) <=> (NetOf(hist, id) > 0)

(***************************************************************************)
(* C2 as amended: a loan entry for id X exists iff X has been issued in    *)
(* this run and no return of X has incremented its count since the latest  *)
(* successful issue of X.                                                  *)
(***************************************************************************)
C2_LoanIffLastWasIssue ==
    \A id \in Ids : (id \in DOMAIN issued_books) <=> (LastOf(hist, id) = "issue")

\* a copy is still out, and the one return since has removed the entry
C2_Witness ==
    \E id \in Ids :
        /\ NetOf(hist, id) > 0
        /\ LastOf(hist, id) = "return"
        /\ id \notin DOMAIN issued_books
        /\ out.msg \in {"returned_on_time", "returned_overdue"}

(***************************************************************************)
(* C3 as claimed: check_out then check_in on a Record leaves its           *)
(* availableCopies as it was, whatever the Record; stated here of the      *)
(* Records with 0 <= availableCopies <= totalCopies, where it fails        *)
(* already.                                                                *)
(***************************************************************************)
C3_OutThenInRestores ==
    \A i \in 1..Len(books) :
        (0 <= books[i].available_copies /\ books[i].available_copies <= books[i].total_copies)
            => OutThenIn(books[i]) = books[i].available_copies

(***************************************************************************)
(* C3 as amended: check_out then check_in leaves availableCopies as it was *)
(* exactly when 0 < availableCopies <= totalCopies beforehand (check_out   *)
(* succeeds and check_in undoes it) or when both calls fail                *)
(* (availableCopies <= 0 and availableCopies >= totalCopies).              *)
(***************************************************************************)
C3_OutThenInRestoresIff ==
    \A i \in 1..Len(books) :
        LET a == books[i].available_copies
            t == books[i].total_copies
        IN  (OutThenIn(books[i]) = a) <=> ((0 < a /\ a <= t) \/ (a <= 0 /\ a >= t))

\* after an issue and a return the catalog holds a Record on which check_out
\* succeeds and check_in restores the count, and one with no copy available
\* on which check_in alone acts
C3_Witness ==
    /\ out.msg = "not_recorded_incremented"
    /\ \E i \in 1..Len(books) :
         /\ 0 < books[i].available_copies
         /\ check_out(books[i]).ok
         /\ OutThenIn(books[i]) = books[i].available_copies
    /\ \E i \in 1..Len(books) :
         /\ books[i].available_copies = 0
         /\ OutThenIn(books[i]) = 1

(***************************************************************************)
(* C4: check_out fails without effect when availableCopies = 0, check_in   *)
(* fails without effect when availableCopies = totalCopies, and in every   *)
(* other case check_out decrements and check_in increments by exactly 1    *)
(* and succeeds.                                                           *)
(***************************************************************************)
C4_CheckOutCheckIn ==
    \A i \in 1..Len(books) :
        LET b == books[i]
            co == check_out(b)
            ci == check_in(b)
        IN  /\ b.available_copies = 0 => (~co.ok /\ co.book = b)
            /\ b.available_copies = b.total_copies => (~ci.ok /\ ci.book = b)
            /\ b.available_copies # 0 =>
                 (co.ok /\ co.book = [b EXCEPT !.available_copies = @ - 1])
            /\ b.available_copies # b.total_copies =>
                 (ci.ok /\ ci.book = [b EXCEPT !.available_copies = @ + 1])

(***************************************************************************)
(* C5: an issue that resolves to a Record with availableCopies = 0 reports *)
(* that all copies are checked out and changes nothing: no Record changes  *)
(* and the loan map is as before, an existing entry for that id included.  *)
(***************************************************************************)
C5_IssueWithNoCopyLeft ==
    [][\A typed \in QueryInputs : \A i \in 1..Len(books) :
         (books[i].available_copies = 0 /\ ResolvesTo(typed, i) /\ issue_book(typed))
            => /\ out'.msg = "all_checked_out"
               /\ books' = books
               /\ issued_books' = issued_books]_vars

\* the issue was refused for a Record that has a loan entry, which is there
\* with its timestamps
C5_Witness ==
    /\ out.msg = "all_checked_out"
    /\ \E i \in 1..Len(books) :
         /\ books[i].available_copies = 0
         /\ books[i].book_id \in DOMAIN issued_books
         /\ issued_books[books[i].book_id][2] > now

(***************************************************************************)
(* C6: every loan entry has dueTimestamp = issueTimestamp + 14 days.       *)
(* The code reads the clock twice, so the issue timestamp can be later     *)
(* than the instant the due date is counted from.                          *)
(***************************************************************************)
C6_DueIsIssuePlus14Days ==
    \A id \in DOMAIN issued_books :
        issued_books[id][2] = issued_books[id][1] + LoanDays * TicksPerDay

(***************************************************************************)
(* C7: a return that resolves to a Record with a loan entry and whose      *)
(* check_in succeeds removes the entry and reports the fine                *)
(* 10 * overdueDays, overdueDays being the whole days by which the return  *)
(* is past the due date and 0 when it is not past it; the fine is 0 for a  *)
(* return on the day of the issue and 60 for a return 20 days after it.    *)
(***************************************************************************)
C7_ReturnFine ==
    [][\A typed \in QueryInputs : \A i \in 1..Len(books) :
         (/\ books[i].book_id \in DOMAIN issued_books
          /\ books'[i].available_copies = books[i].available_copies + 1
          /\ ResolvesTo(typed, i)
          /\ return_book(typed))
            => LET loan == issued_books[books[i].book_id] IN
               /\ books[i].book_id \notin DOMAIN issued_books'
               /\ out'.fine = FinePerDay * WholeDaysPast(now, loan[2])
               /\ out'.fine >= 0
               /\ (now <= loan[2]) => out'.fine = 0
               /\ (now - loan[1] < TicksPerDay) => out'.fine = 0
               /\ (now - loan[1] = 20 * TicksPerDay) => out'.fine = 60]_vars

\* a book was returned late by a whole number of days, with a fine
C7_Witness ==
    /\ out.msg = "returned_overdue"
    /\ out.fine = 60
    /\ issued_books = EmptyMap
    /\ \E id \in DOMAIN hist : hist[id].last = "return"

\* a book was returned less than a day late: the fine is 0
C7_WitnessPartDay ==
    /\ out.msg = "returned_overdue"
    /\ out.fine = 0

(***************************************************************************)
(* C8: the ids of the Records of the catalog are pairwise distinct in      *)
(* every reachable state.  The code checks the id it generates on add, not *)
(* the ids of the rows it loads.                                           *)
(***************************************************************************)
C8_IdsDistinct ==
    \A i, j \in 1..Len(books) : i # j => books[i].book_id # books[j].book_id

(***************************************************************************)
(* C9: save then load is a round trip: loading the file a save has written *)
(* gives a list of the same length with the same id, title, author,        *)
(* totalCopies and availableCopies at every position; and a save changes   *)
(* no Record in memory and no loan entry.                                  *)
(***************************************************************************)
C9_SaveLoadRoundTrip ==
    [][save_books =>
         /\ books' = books
         /\ issued_books' = issued_books
         /\ out'.msg = "saved" =>
              /\ ~load_books(file').error
              /\ Len(load_books(file').books) = Len(books)
              /\ \A i \in 1..Len(books) :
                   LET b == load_books(file').books[i] IN
                   /\ b.book_id = books[i].book_id
                   /\ b.title = books[i].title
                   /\ b.author = books[i].author
                   /\ b.total_copies = books[i].total_copies
                   /\ b.available_copies = books[i].available_copies]_vars

\* a catalog with a copy out and a title that needs quoting has been saved,
\* and the file loads back to it
C9_Witness ==
    /\ pc = "exited"
    /\ out.msg = "saved"
    /\ Len(books) = 2
    /\ \E i \in 1..Len(books) : NeedsQuote(books[i].title)
    /\ \E i \in 1..Len(books) : books[i].available_copies < books[i].total_copies
    /\ issued_books # EmptyMap
    /\ load_books(file).books = books

(***************************************************************************)
(* C10: an issue or a return whose query matches no Record reports 'not    *)
(* found' and changes no state: the Records, their order and the loan map  *)
(* are as before.                                                          *)
(***************************************************************************)
C10_LookupMiss ==
    [][\A typed \in QueryInputs :
         (/\ \A i \in 1..Len(books) : ~QueryMatches(typed, books[i])
          /\ issue_book(typed) \/ return_book(typed))
            => /\ out'.msg = "not_found"
               /\ books' = books
               /\ issued_books' = issued_books]_vars

\* 'not found' was reported in a catalog that has Records and a loan
C10_Witness ==
    /\ out.msg = "not_found"
    /\ books # <<>>
    /\ issued_books # EmptyMap

(***************************************************************************)
(* C11: an issue, a return or a search given an empty query checks no copy *)
(* out or in: the Records and the loan map are as before the step.         *)
(***************************************************************************)
C11_EmptyQueryChangesNothing ==
    [][\A typed \in QueryInputs :
         (/\ Strip(typed) = <<>>
          /\ issue_book(typed) \/ return_book(typed) \/ search_book(typed))
            => /\ books' = books
               /\ issued_books' = issued_books]_vars

\* the rows of file f after its header that have a value in every column
HasAllColumns(row) == Len(row) >= Len(FIELDNAMES)
CompleteRows(f) ==
    IF ~f.exists \/ ~f.readable \/ DictRows(f.lines) = <<>> THEN <<>>
    ELSE SelectSeq(Tail(DictRows(f.lines)), HasAllColumns)

(***************************************************************************)
(* C12: loading keeps the rows that have every column, in file order, and  *)
(* skips each row that misses one; an absent, an empty or an unreadable    *)
(* file loads as the empty collection, and the program goes on to the menu.*)
(***************************************************************************)
C12_LoadKeepsCompleteRows ==
    [][Library_init
         => /\ pc' = "menu"
            /\ Len(books') = Len(CompleteRows(file))
            /\ \A i \in 1..Len(books') :
                 books'[i].book_id = CompleteRows(file)[i][1]]_vars

\* what an issue or a return can print
LookupMessages ==
    {"not_found", "issued", "all_checked_out", "not_recorded_incremented",
     "not_recorded", "returned_overdue", "returned_on_time", "cannot_return"}

\* the index of the first book of the catalog that the query typed matches,
\* 0 when it matches none
FirstMatch(typed) ==
    IF \E i \in 1..Len(books) : ResolvesTo(typed, i)
    THEN CHOOSE i \in 1..Len(books) : ResolvesTo(typed, i)
    ELSE 0

(***************************************************************************)
(* C13: _find_book returns the first Record, in the order of the catalog,  *)
(* whose id equals the query or whose title contains it, letter case       *)
(* aside, and None when there is none; an issue or a return acts on that   *)
(* Record only: every other Record is as before, also a later Record whose *)
(* id is the query, and 'not found' is reported exactly when no Record     *)
(* matches.                                                                *)
(***************************************************************************)
C13_ActsOnFirstMatch ==
    [][\A typed \in QueryInputs :
         (/\ pc = "menu"
          /\ out'.msg \in LookupMessages
          /\ issue_book(typed) \/ return_book(typed))
            => LET m == FirstMatch(typed) IN
               /\ find_book(books, Strip(typed)) = m
               /\ Len(books') = Len(books)
               /\ \A j \in 1..Len(books) : j # m => books'[j] = books[j]
               /\ (out'.msg = "not_found") <=> (m = 0)
               /\ DOMAIN issued_books' # DOMAIN issued_books
                    => /\ m # 0
                       /\ \A id \in DOMAIN issued_books' \ DOMAIN issued_books :
                            id = books[m].book_id
                       /\ \A id \in DOMAIN issued_books \ DOMAIN issued_books' :
                            id = books[m].book_id]_vars

\* a copy of the first Record, whose title holds the id of the second, was
\* issued under that id: the loan is under the first Record's id and the
\* second Record is untouched
C13_Witness ==
    /\ out.msg = "issued"
    /\ Len(books) = 2
    /\ books[2].book_id = Id1001
    /\ IsSubstr(Id1001, books[1].title)
    /\ books[1].book_id # Id1001
    /\ books[1].available_copies < books[1].total_copies
    /\ DOMAIN issued_books = {books[1].book_id}
    /\ Id1001 \notin DOMAIN hist

(***************************************************************************)
(* C14: a return that resolves to a Record whose id has no loan entry      *)
(* reports that the book was not recorded as issued and adds exactly 1 to  *)
(* that Record's available_copies if and only if available_copies was      *)
(* below total_copies; either way the loan map is as before and no fine is *)
(* computed.                                                               *)
(***************************************************************************)
C14_ReturnWithoutLoanEntry ==
    [][\A typed \in QueryInputs : \A i \in 1..Len(books) :
         (/\ pc = "menu"
          /\ out'.msg \in LookupMessages
          /\ books[i].book_id \notin DOMAIN issued_books
          /\ ResolvesTo(typed, i)
          /\ return_book(typed))
            => /\ issued_books' = issued_books
               /\ out'.fine = 0
               /\ IF books[i].available_copies < books[i].total_copies
                  THEN /\ out'.msg = "not_recorded_incremented"
                       /\ books' = [books EXCEPT ![i].available_copies = @ + 1]
                  ELSE /\ out'.msg = "not_recorded"
                       /\ books' = books]_vars

\* a copy came back for an id without a loan entry and was counted, while
\* the loan of another Record stayed in the map
C14_Witness ==
    /\ out.msg = "not_recorded_incremented"
    /\ issued_books # EmptyMap
    /\ \E i \in 1..Len(books) :
         /\ books[i].book_id \notin DOMAIN issued_books
         /\ LastOf(hist, books[i].book_id) = "return"
         /\ NetOf(hist, books[i].book_id) < 0

(***************************************************************************)
(* C15: a return that resolves to a Record whose id has a loan entry while *)
(* its available_copies equals its total_copies reports that the book      *)
(* cannot be returned and changes nothing: the loan entry stays in the map *)
(* with its timestamps and the Records are as before.                      *)
(***************************************************************************)
C15_ReturnWithAllCopiesIn ==
    [][\A typed \in QueryInputs : \A i \in 1..Len(books) :
         (/\ pc = "menu"
          /\ out'.msg \in LookupMessages
          /\ books[i].book_id \in DOMAIN issued_books
          /\ books[i].available_copies = books[i].total_copies
          /\ ResolvesTo(typed, i)
          /\ return_book(typed))
            => /\ out'.msg = "cannot_return"
               /\ out'.fine = 0
               /\ books' = books
               /\ issued_books' = issued_books]_vars

\* the return of a Record that has a loan entry and every copy on the shelf
\* was refused
C15_Witness ==
    /\ out.msg = "cannot_return"
    /\ \E i \in 1..Len(books) :
         /\ books[i].book_id \in DOMAIN issued_books
         /\ books[i].available_copies = books[i].total_copies
         /\ LastOf(hist, books[i].book_id) = "issue"

\* the positive whole numbers that the text typed as quantity writes, spaces
\* around it aside: one number or none
PositiveCounts(text) == {n \in 1..9 : IntToStr(n) = Strip(text)}

(***************************************************************************)
(* C16: add appends exactly one new Record at the end of the catalog, with *)
(* available_copies = total_copies = the quantity typed, which is a        *)
(* positive whole number: a quantity that is not one is never accepted.    *)
(* The Records that were there, their order and the loan map are unchanged *)
(* by every step of add.                                                   *)
(***************************************************************************)
C16_AddAppendsOneRecord ==
    [][/\ (pc = "menu" /\ add_book) => (books' = books /\ issued_books' = issued_books)
       /\ (pc = "nextid" /\ pc' \in {"nextid", "qty"})
             => (books' = books /\ issued_books' = issued_books)
       /\ \A text \in QtyInputs :
            (pc = "qty" /\ enter_quantity(text))
               => /\ issued_books' = issued_books
                  /\ IF PositiveCounts(text) = {}
                     THEN books' = books /\ pc' = "qty"
                     ELSE /\ Len(books') = Len(books) + 1
                          /\ SubSeq(books', 1, Len(books)) = books
                          /\ books'[Len(books')].book_id = new_book.book_id
                          /\ books'[Len(books')].title = new_book.title
                          /\ books'[Len(books')].author = new_book.author
                          /\ books'[Len(books')].total_copies \in PositiveCounts(text)
                          /\ books'[Len(books')].available_copies
                               = books'[Len(books')].total_copies]_vars

\* a Record was added behind a Record that has a copy on loan
C16_Witness ==
    /\ out.msg = "added"
    /\ Len(books) = 2
    /\ books[2].total_copies > 0
    /\ books[2].available_copies = books[2].total_copies
    /\ books[2].book_id \notin DOMAIN hist
    /\ books[1].book_id \in DOMAIN issued_books
    /\ books[1].available_copies < books[1].total_copies

(***************************************************************************)
(* C17: no step of add, issue, return, search, display or save removes or  *)
(* reorders a Record or changes the id, the title, the author or the       *)
(* total_copies of a Record of the catalog; only available_copies changes, *)
(* by -1 in an issue and by +1 in a return, and in one Record per step.    *)
(***************************************************************************)
C17_RecordsKeepIdentity ==
    [][/\ Len(books') >= Len(books)
       /\ \A i \in 1..Len(books) :
            /\ books'[i].book_id = books[i].book_id
            /\ books'[i].title = books[i].title
            /\ books'[i].author = books[i].author
            /\ books'[i].total_copies = books[i].total_copies
            /\ books'[i].available_copies # books[i].available_copies
                 => /\ \/ /\ books'[i].available_copies = books[i].available_copies - 1
                          /\ out'.msg = "issued"
                       \/ /\ books'[i].available_copies = books[i].available_copies + 1
                          /\ out'.msg \in {"not_recorded_incremented", "returned_overdue",
                                           "returned_on_time"}
                    /\ \A j \in 1..Len(books) : j # i => books'[j] = books[j]]_vars

\* after an add, issues and returns on both Records, and the save that ends
\* the session
C17_Witness ==
    /\ pc = "exited"
    /\ Len(books) = 2
    /\ LastOf(hist, books[1].book_id) = "return"
    /\ books[2].book_id \in DOMAIN issued_books
    /\ books[2].book_id # books[1].book_id
    /\ books[2].available_copies < books[2].total_copies

\* the values random.randint can draw that are not the id of a Record
FreeDraws == {n \in DrawRange : IntToStr(n) \notin ExistingIds(books)}

(***************************************************************************)
(* C18: under fair draws the loop of _get_next_id ends whenever a value of *)
(* the range is not the id of a Record, also when one value only is free;  *)
(* it has no bound on its turns and it ends only with a value that is not  *)
(* in use: a turn that draws an id in use leaves the loop where it was.    *)
(***************************************************************************)
C18_NextIdReturns ==
    /\ (pc = "nextid" /\ FreeDraws # {}) ~> (pc = "qty")
    /\ [][pc = "nextid"
            => /\ pc' \in {"nextid", "qty"}
               /\ books' = books
               /\ pc' = "qty"
                    => /\ new_book'.book_id \notin ExistingIds(books)
                       /\ \E n \in FreeDraws : new_book'.book_id = IntToStr(n)
               /\ \A n \in DrawRange \ FreeDraws : Draw(n) => pc' = "nextid"]_vars

\* the loop returned the one value that was free
C18_Witness ==
    /\ pc = "qty"
    /\ Cardinality(FreeDraws) = 1
    /\ \E n \in FreeDraws : new_book.book_id = IntToStr(n)
    /\ Len(books) = 1

(***************************************************************************)
(* C19: from a start with pairwise distinct ids, counts within             *)
(* 0..total_copies and no loan entry, in every state reached by add, issue *)
(* and return a Record whose id has a loan entry has available_copies      *)
(* below total_copies, and return never takes the branch that reports that *)
(* every copy is already in.                                               *)
(***************************************************************************)
C19_LoanImpliesCopyOut ==
    /\ \A i \in 1..Len(books) :
         books[i].book_id \in DOMAIN issued_books
            => books[i].available_copies < books[i].total_copies
    /\ out.msg # "cannot_return"

\* two Records, a loan entry for one of them after issues and returns on
\* both
C19_Witness ==
    /\ Len(books) = 2
    /\ pc = "menu"
    /\ \E i, j \in 1..Len(books) :
         /\ i # j
         /\ books[i].book_id \in DOMAIN issued_books
         /\ NetOf(hist, books[i].book_id) = 1
         /\ LastOf(hist, books[j].book_id) = "return"
         /\ books[j].book_id \notin DOMAIN issued_books

(***************************************************************************)
(* C20, for k = 1: when the only Record ever issued or returned is one     *)
(* that a query resolves to alone, and the step before was a successful    *)
(* issue of it, a return of it at once succeeds: it puts available_copies  *)
(* back to what it was before the issue and leaves no loan entry for the   *)
(* id.                                                                     *)
(***************************************************************************)
C20_IssueThenReturnRestores ==
    [][\A typed \in QueryInputs : \A i \in 1..Len(books) :
         (/\ pc = "menu"
          /\ out.msg = "issued"
          /\ DOMAIN hist = {books[i].book_id}
          /\ \A j \in 1..Len(books) : j # i => books[j].book_id # books[i].book_id
          /\ ResolvesTo(typed, i)
          /\ \A j \in 1..Len(books) : j # i => ~QueryMatches(typed, books[j])
          /\ return_book(typed))
            => /\ out'.msg \in {"returned_on_time", "returned_overdue"}
               /\ books'[i].available_copies = books[i].available_copies + 1
               /\ books[i].book_id \notin DOMAIN issued_books']_vars

====
